---- MODULE Spec2Model ----
(***************************************************************************)
(* Model of WeatherRecordsCard (src/src/components/Layout.tsx): the draft  *)
(* form, the historical-weather aggregation (archive + forecast provider), *)
(* and the records cache kept against the persistence service.             *)
(*                                                                         *)
(* A Date is [day, tod]: day is the calendar day number, tod is 0 at local *)
(* midnight and 1 later in the day (new Date() is not a midnight); tod -1  *)
(* marks an Invalid Date, as new Date("") of an emptied date input is.     *)
(* A 'yyyy-MM-dd' string is represented by its day number.                 *)
(* A location is a number: 0 is the initial {name: "", lat: 0, lon: 0},    *)
(* 1..NumLocations are geocoder suggestions (name and coordinates go       *)
(* together in every assignment of the component).                         *)
(***************************************************************************)
EXTENDS Integers, Sequences, FiniteSets, TLC

\* ---------------------------------------------------------------- bounds
TodayNum == 40        \* day number of startOfToday()
NumLocations == 1     \* geocoder suggestions the user can pick
MaxFetches == 1       \* fetchHistoricalWeather calls in flight together (Spec, SpecStore)
MaxOverlap == 2       \* the same, where the user does not wait (SpecOverlap)
MaxRequests == 2      \* persistence requests (save, delete) issued in a run
MaxSubmits == 3       \* handleWeatherSubmit calls started in a run (SpecHome)
MaxVideos == 4        \* the longest videos list (SpecCarousel)

\* ------------------------------------------------------ program constants
CutoffDays == 4
MaxRangeDays == 30
ResetEndOffset == 5
InitialStartOffset == 7
DATE_RANGE_OPTIONS == <<7, 14, 30, 0>>

Locations == 1..NumLocations
\* what the user can type into the custom date inputs, relative to today
CustomDays == {TodayNum - 1, TodayNum + 1}
\* the same, where the rules of validation are exercised: a range of 32 and of
\* 31 days, days before, on and after the cutoff, yesterday and tomorrow
DateInputDays ==
  {TodayNum - 31, TodayNum - 30, TodayNum - 5, TodayNum - 4, TodayNum - 3,
   TodayNum - 1, TodayNum + 1}
\* the range buttons the user presses: "Last 7 days" and "Custom Range"
RangeChoices == {1, 4}
\* the order in which a provider lists the days of its answer
Orders == {"asc", "desc"}

\* ---------------------------------------------------------------- date-fns
Midnight(d) == [day |-> d, tod |-> 0]
NewDate(dayString) == Midnight(dayString)
startOfToday == Midnight(TodayNum)
today == startOfToday
Now == [day |-> TodayNum, tod |-> 1]
subDays(date, n) == [date EXCEPT !.day = @ - n]
addDays(date, n) == [date EXCEPT !.day = @ + n]
\* new Date(""): its time value is NaN
InvalidDate == [day |-> 0, tod |-> -1]
IsValidDate(date) == date.tod >= 0
\* a comparison with NaN is false
isAfter(a, b) ==
  /\ IsValidDate(a) /\ IsValidDate(b)
  /\ a.day > b.day \/ (a.day = b.day /\ a.tod > b.tod)
isBefore(a, b) == isAfter(b, a)
compareAsc(a, b) == IF isBefore(a, b) THEN -1 ELSE IF isAfter(a, b) THEN 1 ELSE 0
\* format(date, 'yyyy-MM-dd'); it throws a RangeError for an Invalid Date,
\* which the callers below test for with IsValidDate
dateFormat(date) == date.day
\* full days between two valid dates, truncated towards zero (NaN otherwise:
\* see DifferenceExceeds)
differenceInDays(l, r) ==
  LET t == (l.day - r.day) * 2 + (l.tod - r.tod)
  IN IF t >= 0 THEN t \div 2 ELSE -((-t) \div 2)

\* differenceInDays(l, r) > n, which is false when the difference is NaN
DifferenceExceeds(l, r, n) ==
  IsValidDate(l) /\ IsValidDate(r) /\ differenceInDays(l, r) > n

\* ------------------------------------------------------------ observations
\* One normalised day of a provider answer; its values are a function of the
\* coordinates asked for and of the day, so the coordinates stand for them.
Observation(lat, dayString) == [date |-> NewDate(dayString), lat |-> lat]

\* daily.time of a provider answer to [start_date, end_date]: one entry per
\* day asked for (none for a degenerate range), in the provider's order.
DailyTime(req, order) ==
  LET n == IF req.end_date >= req.start_date THEN req.end_date - req.start_date + 1 ELSE 0
  IN [i \in 1..n |-> IF order = "asc" THEN req.start_date + i - 1 ELSE req.end_date - i + 1]

\* the push loop over daily.time
PushAll(temperatures, lat, time) ==
  temperatures \o [i \in 1..Len(time) |-> Observation(lat, time[i])]

RECURSIVE InsertByDate(_, _)
InsertByDate(sorted, x) ==
  IF sorted = <<>> THEN <<x>>
  ELSE IF compareAsc(Head(sorted).date, x.date) <= 0
       THEN <<Head(sorted)>> \o InsertByDate(Tail(sorted), x)
       ELSE <<x>> \o sorted

RECURSIVE StableSort(_)
StableSort(s) ==
  IF s = <<>> THEN <<>>
  ELSE InsertByDate(StableSort(SubSeq(s, 1, Len(s) - 1)), s[Len(s)])

\* a plausible slip: the concatenation is stored as the providers sent it
Unsorted(temperatures) == temperatures
\* temperatures.sort((a, b) => compareAsc(a.date, b.date))
SortTemperatures(temperatures) == StableSort(temperatures)

\* --------------------------------------------------------- source splitting
cutoffDate == subDays(startOfToday, CutoffDays)
\* a slip that would ask the forecast provider for a range ending on the cutoff
NeedsRecentDataFromCutoff(endDate) == ~isBefore(endDate, cutoffDate)
ArchiveEndDate(endDate) == IF isBefore(endDate, cutoffDate) THEN endDate ELSE cutoffDate
NeedsRecentData(endDate) == isAfter(endDate, cutoffDate)
ArchiveRequest(startDate, endDate) ==
  [provider |-> "archive", start_date |-> dateFormat(startDate),
   end_date |-> dateFormat(ArchiveEndDate(endDate))]
ForecastRequest(endDate) ==
  [provider |-> "forecast", start_date |-> dateFormat(addDays(cutoffDate, 1)),
   end_date |-> dateFormat(endDate)]

\* ------------------------------------------------------------------ state
VARIABLES
  formData,          \* the draft form: id (0: none), location, dateRange, temperatures
  selectedRecord,    \* _id of the record loaded for editing, 0 when null
  records,           \* the local cache of stored records
  isLoadingWeather,
  isCustomRange,
  isDeleteModalOpen,
  recordToDelete,    \* 0 when null
  fetches,           \* fetchHistoricalWeather calls suspended at an await
  requests,          \* saveRecord / delete handlers suspended at their await
  listPending,       \* fetchRecords of the mount effect: "await", then "done" or "failed"
  server,            \* the records held by the persistence service
  nextId,            \* the next id the persistence service assigns
  issued,            \* how many save and delete requests have been sent so far
  toast,             \* the toast raised by the latest step, "none" if none
  completed,         \* the fetchHistoricalWeather call the latest step finished
  download,          \* the file the latest exportRecord handed to downloadFile
  \* the home page (Home)
  weatherData,       \* the handleWeatherSubmit call whose answer is shown, 0 when null
  forecastData,
  airPollutionData,
  mapCenter,         \* the call whose coordinates the map is centred on, 0: the initial centre
  error,             \* the error message, "null" when null
  isLoading,
  submits,           \* handleWeatherSubmit calls suspended at their await
  submitCount,       \* how many calls were started so far
  finished,          \* the handleWeatherSubmit call the latest step finished
  \* VideoCarousel
  videos,            \* the videos prop
  currentIndex,
  trail              \* the latest two button presses and the index each found

homeVars == <<weatherData, forecastData, airPollutionData, mapCenter, error,
              isLoading, submits, submitCount, finished>>
carouselVars == <<videos, currentIndex, trail>>
pageVars == <<homeVars, carouselVars>>

vars == <<formData, selectedRecord, records, isLoadingWeather, isCustomRange,
          isDeleteModalOpen, recordToDelete, fetches, requests, listPending,
          server, nextId, issued, toast, completed, download, pageVars>>

\* the state of WeatherRecordsCard
cardVars == <<formData, selectedRecord, records, isLoadingWeather, isCustomRange,
              isDeleteModalOpen, recordToDelete, fetches, requests, listPending,
              server, nextId, issued, toast, completed, download>>

formVars == <<formData, isLoadingWeather, fetches>>
storeVars == <<selectedRecord, records, isDeleteModalOpen, recordToDelete,
               requests, listPending, server, nextId, issued, download, pageVars>>

NoCompletion ==
  [outcome |-> "none", lat |-> 0, startDate |-> today, endDate |-> today,
   requests |-> <<>>, raw |-> <<>>, stale |-> FALSE]

NoDownload == [format |-> "none"]

EmptyForm(startDate, endDate) ==
  [id |-> 0, location |-> 0,
   dateRange |-> [startDate |-> startDate, endDate |-> endDate],
   hasTemps |-> FALSE, temperatures |-> <<>>]

\* the series fetchHistoricalWeather stores for a location and range when both
\* providers answer
SeriesFor(lat, startDate, endDate) ==
  LET archive == PushAll(<<>>, lat, DailyTime(ArchiveRequest(startDate, endDate), "asc"))
  IN SortTemperatures(
       IF NeedsRecentData(endDate)
       THEN PushAll(archive, lat, DailyTime(ForecastRequest(endDate), "asc"))
       ELSE archive)

\* a record saved in an earlier session, for the range the form starts with
SeedRecord ==
  [id |-> 1, location |-> 1,
   dateRange |-> [startDate |-> subDays(today, InitialStartOffset), endDate |-> today],
   temperatures |-> SeriesFor(1, subDays(today, InitialStartOffset), today)]

NoFinish == [outcome |-> "none", call |-> 0, responses |-> <<>>]

\* Home after construction
HomeInit ==
  /\ weatherData = 0
  /\ forecastData = 0
  /\ airPollutionData = 0
  /\ mapCenter = 0
  /\ error = "null"
  /\ isLoading = FALSE
  /\ submits = <<>>
  /\ submitCount = 0
  /\ finished = NoFinish

\* VideoCarousel after construction, given its videos
CarouselInit(list) ==
  /\ videos = list
  /\ currentIndex = 0
  /\ trail = <<>>

\* WeatherRecordsCard after construction, the persistence service holding
\* `stored`
CardInit(stored) ==
  /\ formData = EmptyForm(subDays(today, InitialStartOffset), today)
  /\ selectedRecord = 0
  /\ records = <<>>
  /\ isLoadingWeather = FALSE
  /\ isCustomRange = FALSE
  /\ isDeleteModalOpen = FALSE
  /\ recordToDelete = 0
  /\ fetches = <<>>
  /\ requests = <<>>
  /\ listPending = "await"
  /\ server = stored
  /\ nextId = 2
  /\ issued = 0
  /\ toast = "none"
  /\ completed = NoCompletion
  /\ download = NoDownload

\* the page after construction; no videos are shown
InitWith(stored) == CardInit(stored) /\ HomeInit /\ CarouselInit(<<>>)

Init == InitWith(<<SeedRecord>>)

RemoveAt(seq, i) == SubSeq(seq, 1, i - 1) \o SubSeq(seq, i + 1, Len(seq))

\* ------------------------------------------------- fetchHistoricalWeather
\* the forecast request leaves together with the archive request
NewFetchBothIssued(lat, startDate, endDate) ==
  [lat |-> lat, startDate |-> startDate, endDate |-> endDate, pc |-> "archive",
   requests |-> IF NeedsRecentData(endDate)
                THEN <<ArchiveRequest(startDate, endDate), ForecastRequest(endDate)>>
                ELSE <<ArchiveRequest(startDate, endDate)>>,
   temperatures |-> <<>>, stale |-> FALSE]
\* the call up to its first await: the archive request is on its way
NewFetch(lat, startDate, endDate) ==
  [lat |-> lat, startDate |-> startDate, endDate |-> endDate, pc |-> "archive",
   requests |-> <<ArchiveRequest(startDate, endDate)>>,
   temperatures |-> <<>>, stale |-> FALSE]

\* every call already in flight now answers a superseded request (stale is
\* bookkeeping of the model: the component keeps no such token)
Superseded == [i \in DOMAIN fetches |-> [fetches[i] EXCEPT !.stale = TRUE]]

\* dateFormat(startDate) of the archive request throws for an Invalid Date
\* before anything is sent: catch, then finally
StartFetch(lat, startDate, endDate) ==
  IF IsValidDate(startDate)
  THEN /\ fetches' = Append(Superseded, NewFetch(lat, startDate, endDate))
       /\ isLoadingWeather' = TRUE
  ELSE /\ fetches' = Superseded
       /\ isLoadingWeather' = FALSE

\* the toast of the step that calls fetchHistoricalWeather
StartFetchToast(startDate) ==
  IF IsValidDate(startDate) THEN "none" ELSE "Failed to fetch weather data"

Completion(f, outcome, raw) ==
  [outcome |-> outcome, lat |-> f.lat, startDate |-> f.startDate,
   endDate |-> f.endDate, requests |-> f.requests, raw |-> raw, stale |-> f.stale]

\* sort, setFormData(prev => ({...prev, temperatures})), finally
StoreTemperatures(i, temperatures) ==
  /\ formData' = [formData EXCEPT !.temperatures = SortTemperatures(temperatures),
                                  !.hasTemps = TRUE]
  /\ isLoadingWeather' = FALSE
  /\ fetches' = RemoveAt(fetches, i)
  /\ toast' = "none"
  /\ completed' = Completion(fetches[i], "stored", temperatures)

ArchiveResponse(i, order) ==
  /\ i \in DOMAIN fetches
  /\ fetches[i].pc = "archive"
  /\ LET f == fetches[i]
         temperatures == PushAll(f.temperatures, f.lat, DailyTime(f.requests[1], order))
     IN IF NeedsRecentData(f.endDate)
        THEN /\ fetches' = [fetches EXCEPT ![i] =
                              [f EXCEPT !.pc = "forecast",
                                        !.temperatures = temperatures,
                                        !.requests = Append(@, ForecastRequest(f.endDate))]]
             /\ toast' = "none"
             /\ completed' = NoCompletion
             /\ UNCHANGED <<formData, isLoadingWeather>>
        ELSE StoreTemperatures(i, temperatures)
  /\ UNCHANGED <<isCustomRange, storeVars>>

ForecastResponse(i, order) ==
  /\ i \in DOMAIN fetches
  /\ fetches[i].pc = "forecast"
  /\ LET f == fetches[i]
     IN StoreTemperatures(i, PushAll(f.temperatures, f.lat,
                                     DailyTime(f.requests[Len(f.requests)], order)))
  /\ UNCHANGED <<isCustomRange, storeVars>>

\* a slip that would show the days of the provider that did answer
KeepPartial(form, f) == [form EXCEPT !.temperatures = f.temperatures, !.hasTemps = TRUE]
\* the catch block: console.error and a toast, the form is not touched
CatchFetchError(form, f) == form

\* the awaited request (archive or forecast) rejects: catch, then finally
FetchFail(i) ==
  /\ i \in DOMAIN fetches
  /\ formData' = CatchFetchError(formData, fetches[i])
  /\ toast' = "Failed to fetch weather data"
  /\ isLoadingWeather' = FALSE
  /\ fetches' = RemoveAt(fetches, i)
  /\ completed' = Completion(fetches[i], "failed", fetches[i].temperatures)
  /\ UNCHANGED <<isCustomRange, storeVars>>

\* ------------------------------------------------------- handleDateChange
\* a slip that would test the order of the two dates first
ValidateOrderFirst(newStartDate, newEndDate) ==
  IF isBefore(newEndDate, newStartDate)
  THEN "End date must be after start date"
  ELSE IF isAfter(newStartDate, today) \/ isAfter(newEndDate, today)
  THEN "Cannot select future dates"
  ELSE IF DifferenceExceeds(newEndDate, newStartDate, MaxRangeDays)
  THEN "Date range cannot exceed 30 days"
  ELSE "ok"

Validate(newStartDate, newEndDate) ==
  IF isAfter(newStartDate, today) \/ isAfter(newEndDate, today)
  THEN "Cannot select future dates"
  ELSE IF DifferenceExceeds(newEndDate, newStartDate, MaxRangeDays)
  THEN "Date range cannot exceed 30 days"
  ELSE IF isBefore(newEndDate, newStartDate)
  THEN "End date must be after start date"
  ELSE "ok"

\* a slip that would write the range to the form before it is validated
handleDateChangeWritesFirst(type, startDate, endDate) ==
  LET newStartDate == IF type = "end" THEN formData.dateRange.startDate ELSE startDate
      newEndDate == IF type = "start" THEN formData.dateRange.endDate ELSE endDate
      verdict == Validate(newStartDate, newEndDate)
  IN /\ formData' = [formData EXCEPT !.dateRange =
                       [startDate |-> newStartDate, endDate |-> newEndDate]]
     /\ IF verdict # "ok"
        THEN /\ toast' = verdict
             /\ UNCHANGED <<isLoadingWeather, fetches>>
        ELSE /\ StartFetch(formData.location, newStartDate, newEndDate)
             /\ toast' = StartFetchToast(newStartDate)
     /\ completed' = NoCompletion
     /\ UNCHANGED storeVars

\* formData.location?.coordinates is an object for every location, also the
\* initial one, so an accepted range always starts a fetch
handleDateChange(type, startDate, endDate) ==
  LET newStartDate == IF type = "end" THEN formData.dateRange.startDate ELSE startDate
      newEndDate == IF type = "start" THEN formData.dateRange.endDate ELSE endDate
      verdict == Validate(newStartDate, newEndDate)
  IN /\ IF verdict # "ok"
        THEN /\ toast' = verdict
             /\ UNCHANGED formVars
        ELSE /\ formData' = [formData EXCEPT !.dateRange =
                               [startDate |-> newStartDate, endDate |-> newEndDate]]
             /\ StartFetch(formData.location, newStartDate, newEndDate)
             /\ toast' = StartFetchToast(newStartDate)
     /\ completed' = NoCompletion
     /\ UNCHANGED storeVars

handleRangeChange(option) ==
  /\ option \in DOMAIN DATE_RANGE_OPTIONS
  /\ LET days == DATE_RANGE_OPTIONS[option]
     IN /\ isCustomRange' = (days = 0)
        /\ IF days > 0
           THEN handleDateChange("both", subDays(today, days - 1), today)
           ELSE /\ toast' = "none"
                /\ completed' = NoCompletion
                /\ UNCHANGED <<formVars, storeVars>>

\* the custom inputs are rendered under isCustomRange and disabled while loading
StartDateInput(d) ==
  /\ d \in DateInputDays
  /\ isCustomRange /\ ~isLoadingWeather
  /\ handleDateChange("start", NewDate(d), today)
  /\ UNCHANGED isCustomRange

EndDateInput(d) ==
  /\ d \in DateInputDays
  /\ isCustomRange /\ ~isLoadingWeather
  /\ handleDateChange("end", today, NewDate(d))
  /\ UNCHANGED isCustomRange

\* the user empties a date input: its value is "", and new Date("") is an
\* Invalid Date
StartDateCleared ==
  /\ isCustomRange /\ ~isLoadingWeather
  /\ handleDateChange("start", InvalidDate, today)
  /\ UNCHANGED isCustomRange

EndDateCleared ==
  /\ isCustomRange /\ ~isLoadingWeather
  /\ handleDateChange("end", today, InvalidDate)
  /\ UNCHANGED isCustomRange

\* The custom inputs render dateFormat(formData.dateRange.startDate) and
\* dateFormat(formData.dateRange.endDate): with an Invalid Date in the form
\* the render throws and the component is unmounted.
Mounted ==
  isCustomRange => /\ IsValidDate(formData.dateRange.startDate)
                   /\ IsValidDate(formData.dateRange.endDate)

handleLocationSelect(suggestion) ==
  /\ suggestion \in Locations
  /\ formData' = [formData EXCEPT !.location = suggestion]
  /\ StartFetch(suggestion, formData.dateRange.startDate, formData.dateRange.endDate)
  /\ toast' = "none"
  /\ completed' = NoCompletion
  /\ UNCHANGED <<isCustomRange, storeVars>>

\* --------------------------------------------------------------- resetForm
\* the calls in flight were started for the form that is now replaced
resetForm ==
  /\ formData' = EmptyForm(Now, addDays(Now, ResetEndOffset))
  /\ selectedRecord' = 0
  /\ fetches' = Superseded

\* the Clear button
Clear ==
  /\ resetForm
  /\ toast' = "none"
  /\ completed' = NoCompletion
  /\ UNCHANGED <<records, isLoadingWeather, isCustomRange, isDeleteModalOpen,
                 recordToDelete, requests, listPending, server, nextId, issued, download, pageVars>>

\* -------------------------------------------------------------- saveRecord
\* what the persistence service stores and answers for a request body
Stored(id, body) ==
  [id |-> id, location |-> body.location, dateRange |-> body.dateRange,
   temperatures |-> body.temperatures]

NoBody == EmptyForm(today, today)

\* a slip that would test the location name only
NameMissing(form) == form.location = 0
\* !formData.location?.name || !formData.temperatures ||
\* formData.temperatures.length === 0
IsIncomplete(form) ==
  form.location = 0 \/ ~form.hasTemps \/ Len(form.temperatures) = 0

\* the handler up to its await; `records` is the array of the render the
\* handler was created in, and stays that array after the await
saveRecord ==
  /\ ~isLoadingWeather /\ formData.location # 0      \* the button is enabled
  /\ IF IsIncomplete(formData)
     THEN /\ toast' = "Please select a valid location and ensure weather data is loaded"
          /\ UNCHANGED <<requests, issued>>
     ELSE /\ requests' = Append(requests,
                           [op |-> IF selectedRecord # 0 THEN "put" ELSE "post",
                            id |-> selectedRecord, body |-> formData,
                            records |-> records])
          /\ issued' = issued + 1
          /\ toast' = "none"
  /\ completed' = NoCompletion
  /\ UNCHANGED <<formData, selectedRecord, records, isLoadingWeather, isCustomRange,
                 isDeleteModalOpen, recordToDelete, fetches, listPending, server, nextId,
                 download, pageVars>>

HasId(seq, id) == \E j \in DOMAIN seq : seq[j].id = id

\* records.map(record => record._id === id ? data : record)
MapReplace(seq, id, data) ==
  [j \in DOMAIN seq |-> IF seq[j].id = id THEN data ELSE seq[j]]

\* records.filter(record => record._id !== id)
RECURSIVE FilterOut(_, _)
FilterOut(seq, id) ==
  IF seq = <<>> THEN <<>>
  ELSE IF Head(seq).id = id THEN FilterOut(Tail(seq), id)
       ELSE <<Head(seq)>> \o FilterOut(Tail(seq), id)

\* the service answers 2xx: setRecords from the captured array, then resetForm
SaveOk(i) ==
  /\ i \in DOMAIN requests
  /\ LET r == requests[i]
     IN \/ /\ r.op = "put"
           /\ HasId(server, r.id)
           /\ server' = MapReplace(server, r.id, Stored(r.id, r.body))
           /\ records' = MapReplace(r.records, r.id, Stored(r.id, r.body))
           /\ toast' = "Weather record updated successfully"
           /\ UNCHANGED nextId
        \/ /\ r.op = "post"
           /\ server' = Append(server, Stored(nextId, r.body))
           /\ records' = Append(r.records, Stored(nextId, r.body))
           /\ nextId' = nextId + 1
           /\ toast' = "Weather record created successfully"
  /\ resetForm
  /\ requests' = RemoveAt(requests, i)
  /\ completed' = NoCompletion
  /\ UNCHANGED <<isLoadingWeather, isCustomRange, isDeleteModalOpen,
                 recordToDelete, listPending, issued, download, pageVars>>

\* a slip that would restore the array captured when the request left
RolledBack(cache, r) == r.records
\* the catch blocks of saveRecord and of the delete handler: console.error
\* and a toast, setRecords is not called
CacheAfterFailure(cache, r) == cache

SaveFail(i) ==
  /\ i \in DOMAIN requests
  /\ requests[i].op \in {"put", "post"}
  /\ records' = CacheAfterFailure(records, requests[i])
  /\ requests' = RemoveAt(requests, i)
  /\ toast' = "Failed to save weather record"
  /\ completed' = NoCompletion
  /\ UNCHANGED <<formVars, selectedRecord, isCustomRange, isDeleteModalOpen,
                 recordToDelete, listPending, server, nextId, issued, download, pageVars>>

\* --------------------------------------------------------- handleEditRecord
handleEditRecord(j) ==
  /\ j \in DOMAIN records
  /\ selectedRecord' = records[j].id
  /\ formData' = [id |-> records[j].id, location |-> records[j].location,
                  dateRange |-> records[j].dateRange,
                  hasTemps |-> TRUE, temperatures |-> records[j].temperatures]
  /\ fetches' = Superseded
  /\ toast' = "none"
  /\ completed' = NoCompletion
  /\ UNCHANGED <<records, isLoadingWeather, isCustomRange, isDeleteModalOpen,
                 recordToDelete, requests, listPending, server, nextId, issued, download, pageVars>>

\* ------------------------------------------------------------------ delete
\* the trash button of a listed record
OpenDeleteModal(j) ==
  /\ j \in DOMAIN records
  /\ recordToDelete' = records[j].id
  /\ isDeleteModalOpen' = TRUE
  /\ toast' = "none"
  /\ completed' = NoCompletion
  /\ UNCHANGED <<formVars, selectedRecord, records, isCustomRange, requests,
                 listPending, server, nextId, issued, download, pageVars>>

CancelDelete ==
  /\ isDeleteModalOpen
  /\ isDeleteModalOpen' = FALSE
  /\ toast' = "none"
  /\ completed' = NoCompletion
  /\ UNCHANGED <<formVars, selectedRecord, records, isCustomRange, recordToDelete,
                 requests, listPending, server, nextId, issued, download, pageVars>>

\* the Delete button of the dialog, up to its await
ConfirmDelete ==
  /\ isDeleteModalOpen
  /\ IF recordToDelete = 0
     THEN UNCHANGED <<requests, issued>>
     ELSE /\ requests' = Append(requests, [op |-> "delete", id |-> recordToDelete,
                                           body |-> NoBody, records |-> records])
          /\ issued' = issued + 1
  /\ toast' = "none"
  /\ completed' = NoCompletion
  /\ UNCHANGED <<formVars, selectedRecord, records, isCustomRange, isDeleteModalOpen,
                 recordToDelete, listPending, server, nextId, download, pageVars>>

DeleteOk(i) ==
  /\ i \in DOMAIN requests
  /\ requests[i].op = "delete"
  /\ HasId(server, requests[i].id)
  /\ server' = FilterOut(server, requests[i].id)
  /\ records' = FilterOut(requests[i].records, requests[i].id)
  /\ isDeleteModalOpen' = FALSE
  /\ recordToDelete' = 0
  /\ requests' = RemoveAt(requests, i)
  /\ toast' = "Weather record deleted successfully"
  /\ completed' = NoCompletion
  /\ UNCHANGED <<formVars, selectedRecord, isCustomRange, listPending, nextId, issued, download, pageVars>>

\* a slip that would send the failed request again
DeleteFailResend(i) ==
  /\ i \in DOMAIN requests
  /\ requests[i].op = "delete"
  /\ toast' = "Failed to delete weather record"
  /\ completed' = NoCompletion
  /\ UNCHANGED <<formVars, selectedRecord, records, isCustomRange, isDeleteModalOpen,
                 recordToDelete, requests, listPending, server, nextId, issued, download, pageVars>>

DeleteFail(i) ==
  /\ i \in DOMAIN requests
  /\ requests[i].op = "delete"
  /\ records' = CacheAfterFailure(records, requests[i])
  /\ requests' = RemoveAt(requests, i)
  /\ toast' = "Failed to delete weather record"
  /\ completed' = NoCompletion
  /\ UNCHANGED <<formVars, selectedRecord, isCustomRange, isDeleteModalOpen,
                 recordToDelete, listPending, server, nextId, issued, download, pageVars>>

\* ------------------------------------------------------------ fetchRecords
FetchRecordsOk ==
  /\ listPending = "await"
  /\ listPending' = "done"
  /\ records' = server
  /\ toast' = "none"
  /\ completed' = NoCompletion
  /\ UNCHANGED <<formVars, selectedRecord, isCustomRange, isDeleteModalOpen,
                 recordToDelete, requests, server, nextId, issued, download, pageVars>>

FetchRecordsFail ==
  /\ listPending = "await"
  /\ listPending' = "failed"
  /\ toast' = "Failed to fetch weather records"
  /\ completed' = NoCompletion
  /\ UNCHANGED <<formVars, selectedRecord, records, isCustomRange, isDeleteModalOpen,
                 recordToDelete, requests, server, nextId, issued, download, pageVars>>

\* ------------------------------------------------------------ exportRecord
\* What the export reads of a stored record. A text is a sequence of pieces:
\* the comma, the double quote and the newline are pieces of their own, any
\* other piece is text without them. A number is in hundredths; humidity and
\* windSpeed are <<>> when absent and <<value>> when present.
Comma == ","
Quote == "\""
Newline == "\n"

\* value.toFixed(1), in tenths: the nearest tenth, a half away from zero
toFixed1(value) ==
  IF value >= 0 THEN (value + 5) \div 10 ELSE -((-value + 5) \div 10)

\* Number(value.toFixed(1)), in hundredths
NumberOfFixed1(value) == 10 * toFixed1(value)

\* temp.humidity ? ... : null -- 0 is falsy, as an absent value is
Truthy(optional) == optional # <<>> /\ optional[1] # 0

JsonObservation(temp) ==
  [date |-> dateFormat(temp.date),
   temperature |-> NumberOfFixed1(temp.temperature),
   description |-> temp.description,
   humidity |-> IF Truthy(temp.humidity)
                THEN <<NumberOfFixed1(temp.humidity[1])>> ELSE <<>>,
   windSpeed |-> IF Truthy(temp.windSpeed)
                 THEN <<NumberOfFixed1(temp.windSpeed[1])>> ELSE <<>>]

\* the object handed to JSON.stringify; null is <<>>
JsonDocument(record) ==
  [location |-> record.location,
   dateRange |-> [startDate |-> dateFormat(record.dateRange.startDate),
                  endDate |-> dateFormat(record.dateRange.endDate)],
   temperatures |-> [k \in DOMAIN record.temperatures |->
                       JsonObservation(record.temperatures[k])],
   createdAt |-> dateFormat(record.createdAt)]

\* field.replace(/"/g, '""')
RECURSIVE DoubleQuotes(_)
DoubleQuotes(field) ==
  IF field = <<>> THEN <<>>
  ELSE (IF Head(field) = Quote THEN <<Quote, Quote>> ELSE <<Head(field)>>)
         \o DoubleQuotes(Tail(field))

\* a slip that would wrap the field and leave its quotes single
escapeCSVWrapOnly(field) ==
  IF field # <<>> /\ \E k \in DOMAIN field : field[k] \in {Comma, Quote, Newline}
  THEN <<Quote>> \o field \o <<Quote>>
  ELSE field

escapeCSV(field) ==
  IF field # <<>> /\ \E k \in DOMAIN field : field[k] \in {Comma, Quote, Newline}
  THEN <<Quote>> \o DoubleQuotes(field) \o <<Quote>>
  ELSE field

\* the text of a number of tenths, as one piece
FixedText(tenths) == <<ToString(tenths)>>
\* the text of a 'yyyy-MM-dd' day or of a coordinate, as one piece
PlainText(n) == <<ToString(n)>>

\* a slip that would print a missing value as 0.0
OptionalFixedTextOrZero(optional) ==
  IF optional = <<>> THEN FixedText(0) ELSE FixedText(toFixed1(optional[1]))
\* temp.humidity?.toFixed(1) || '' -- "0.0" is a truthy string
OptionalFixedText(optional) ==
  IF optional = <<>> THEN <<>> ELSE FixedText(toFixed1(optional[1]))

RECURSIVE Join(_, _)
Join(texts, separator) ==
  IF texts = <<>> THEN <<>>
  ELSE IF Len(texts) = 1 THEN texts[1]
  ELSE texts[1] \o <<separator>> \o Join(Tail(texts), separator)

CsvRow(temp) ==
  Join(<<escapeCSV(PlainText(dateFormat(temp.date))),
         escapeCSV(FixedText(toFixed1(temp.temperature))),
         escapeCSV(temp.description),
         escapeCSV(OptionalFixedText(temp.humidity)),
         escapeCSV(OptionalFixedText(temp.windSpeed))>>, Comma)

\* the header line (its degree sign is left out here)
CsvHeader ==
  <<"Date", Comma, "Temperature (C)", Comma, "Description", Comma,
    "Humidity (%)", Comma, "Wind Speed (m/s)">>

convertToCSV(record) ==
  LET metadata ==
        <<<<"# Location: ">> \o record.location.name,
          <<"# Latitude: ">> \o PlainText(record.location.lat),
          <<"# Longitude: ">> \o PlainText(record.location.lon),
          <<"# Date Range: ">> \o PlainText(dateFormat(record.dateRange.startDate))
            \o <<" to ">> \o PlainText(dateFormat(record.dateRange.endDate)),
          <<>> >>
      rows == [k \in DOMAIN record.temperatures |-> CsvRow(record.temperatures[k])]
  IN Join(metadata \o <<CsvHeader>> \o rows, Newline)

\* a menu item of a listed record; `of` keeps the record the file was made of
exportRecord(j, exportFormat) ==
  /\ j \in DOMAIN records
  /\ \/ /\ exportFormat = "json"
        /\ download' = [format |-> "json", of |-> records[j],
                        document |-> JsonDocument(records[j])]
        /\ toast' = "Record exported as JSON"
     \/ /\ exportFormat = "csv"
        /\ download' = [format |-> "csv", of |-> records[j],
                        document |-> convertToCSV(records[j])]
        /\ toast' = "Record exported as CSV"
  /\ completed' = NoCompletion
  /\ UNCHANGED <<formVars, selectedRecord, records, isCustomRange, isDeleteModalOpen,
                 recordToDelete, requests, listPending, server, nextId, issued, pageVars>>

\* -------------------------------------------------------------------- Home
\* The three requests of fetchWeatherData are numbered 1 (weather),
\* 2 (forecast), 3 (air_pollution). What a call shows is named by its number.
Endpoints == 1..3

NewSubmit(call) == [call |-> call, responses |-> [k \in Endpoints |-> "pending"]]

\* up to the await of Promise.all: the three requests are on their way
handleWeatherSubmit ==
  /\ error' = "null"
  /\ isLoading' = TRUE
  /\ submits' = Append(submits, NewSubmit(submitCount + 1))
  /\ submitCount' = submitCount + 1
  /\ finished' = NoFinish
  /\ UNCHANGED <<weatherData, forecastData, airPollutionData, mapCenter,
                 cardVars, carouselVars>>

\* a slip that would go on with the first answer
AnyFulfilled(responses) == \E k \in Endpoints : responses[k] = "ok"
\* Promise.all is fulfilled when its three promises are
AllFulfilled(responses) == \A k \in Endpoints : responses[k] = "ok"

\* request k of call i is answered; with the last answer the call goes on
\* after its await: the four setters, then finally
RequestFulfilled(i, k) ==
  /\ i \in DOMAIN submits /\ k \in Endpoints
  /\ submits[i].responses[k] = "pending"
  /\ LET responses == [submits[i].responses EXCEPT ![k] = "ok"]
     IN IF AllFulfilled(responses)
        THEN /\ weatherData' = submits[i].call
             /\ forecastData' = submits[i].call
             /\ airPollutionData' = submits[i].call
             /\ mapCenter' = submits[i].call
             /\ isLoading' = FALSE
             /\ submits' = RemoveAt(submits, i)
             /\ finished' = [outcome |-> "success", call |-> submits[i].call,
                             responses |-> responses]
        ELSE /\ submits' = [submits EXCEPT ![i].responses = responses]
             /\ finished' = NoFinish
             /\ UNCHANGED <<weatherData, forecastData, airPollutionData, mapCenter,
                            isLoading>>
  /\ UNCHANGED <<error, submitCount, cardVars, carouselVars>>

\* request k of call i fails: Promise.all rejects, fetchWeatherData rethrows,
\* then catch and finally of handleWeatherSubmit
RequestRejected(i, k) ==
  /\ i \in DOMAIN submits /\ k \in Endpoints
  /\ submits[i].responses[k] = "pending"
  /\ error' = "Failed to fetch weather data. Please try again."
  /\ isLoading' = FALSE
  /\ submits' = RemoveAt(submits, i)
  /\ finished' = [outcome |-> "failure", call |-> submits[i].call,
                  responses |-> [submits[i].responses EXCEPT ![k] = "failed"]]
  /\ UNCHANGED <<weatherData, forecastData, airPollutionData, mapCenter,
                 submitCount, cardVars, carouselVars>>

\* WeatherForm reports a failed search
handleError(message) ==
  /\ error' = message
  /\ finished' = NoFinish
  /\ UNCHANGED <<weatherData, forecastData, airPollutionData, mapCenter, isLoading,
                 submits, submitCount, cardVars, carouselVars>>

\* ----------------------------------------------------------- VideoCarousel
\* a slip that would step back without wrapping
PreviousIndexNoWrap(prevIndex, length) == IF prevIndex = 0 THEN 0 ELSE prevIndex - 1
\* (prevIndex - 1 + videos.length) % videos.length
PreviousIndex(prevIndex, length) == (prevIndex - 1 + length) % length
\* (prevIndex + 1) % videos.length
NextIndex(prevIndex, length) == (prevIndex + 1) % length

\* the latest two presses
Trailed(op) ==
  LET entry == [op |-> op, from |-> currentIndex]
  IN IF trail = <<>> THEN <<entry>> ELSE <<trail[Len(trail)], entry>>

\* the arrows and the dots are rendered for more than one video
nextVideo ==
  /\ Len(videos) > 1
  /\ currentIndex' = NextIndex(currentIndex, Len(videos))
  /\ trail' = Trailed("next")
  /\ UNCHANGED <<videos, cardVars, homeVars>>

previousVideo ==
  /\ Len(videos) > 1
  /\ currentIndex' = PreviousIndex(currentIndex, Len(videos))
  /\ trail' = Trailed("previous")
  /\ UNCHANGED <<videos, cardVars, homeVars>>

\* a dot: setCurrentIndex(index)
SelectVideo(index) ==
  /\ Len(videos) > 1
  /\ index \in 0..(Len(videos) - 1)
  /\ currentIndex' = index
  /\ trail' = Trailed("dot")
  /\ UNCHANGED <<videos, cardVars, homeVars>>

\* ---------------------------------------------------------- specifications
\* The providers' answers, in any order of arrival.
ProvidersIn(orders) ==
  \/ \E i \in DOMAIN fetches, order \in orders : ArchiveResponse(i, order)
  \/ \E i \in DOMAIN fetches, order \in orders : ForecastResponse(i, order)
  \/ \E i \in DOMAIN fetches : FetchFail(i)

Providers == ProvidersIn(Orders)

\* The create tab: the date and location inputs and Clear, with at most
\* maxFetches aggregations in flight together.
CreateTab(maxFetches) ==
  \/ \E option \in RangeChoices :
       Len(fetches) < maxFetches /\ handleRangeChange(option)
  \/ \E d \in CustomDays : Len(fetches) < maxFetches /\ StartDateInput(d)
  \/ \E d \in CustomDays : Len(fetches) < maxFetches /\ EndDateInput(d)
  \/ \E suggestion \in Locations :
       Len(fetches) < maxFetches /\ handleLocationSelect(suggestion)
  \/ Clear

Next == Providers \/ CreateTab(MaxFetches)

Spec == Init /\ [][Next]_vars

NextOverlap == Providers \/ CreateTab(MaxOverlap)

SpecOverlap == Init /\ [][NextOverlap]_vars

\* Saving a draft: a location is picked, "Last 7 days" is pressed, the
\* weather loads or fails to load, the draft is saved or a listed record is
\* loaded for editing. The providers list their days in ascending order here.
NextSave ==
  \/ ProvidersIn({"asc"})
  \/ \E suggestion \in Locations :
       Len(fetches) < MaxFetches /\ handleLocationSelect(suggestion)
  \/ Len(fetches) < MaxFetches /\ handleRangeChange(1)
  \/ issued < MaxRequests /\ saveRecord
  \/ \E i \in DOMAIN requests : SaveOk(i)
  \/ \E i \in DOMAIN requests : SaveFail(i)
  \/ \E j \in DOMAIN records : handleEditRecord(j)
  \/ FetchRecordsOk
  \/ FetchRecordsFail

SpecSave == Init /\ [][NextSave]_vars

\* The records' life: a location is picked, its weather loads, the record is
\* saved, listed, edited, deleted; the persistence service answers in any
\* order of arrival. The date range is left as the form has it.
NextStore ==
  \/ ProvidersIn({"asc"})
  \/ \E suggestion \in Locations :
       Len(fetches) < MaxFetches /\ handleLocationSelect(suggestion)
  \/ Clear
  \/ issued < MaxRequests /\ saveRecord
  \/ \E i \in DOMAIN requests : SaveOk(i)
  \/ \E i \in DOMAIN requests : SaveFail(i)
  \/ \E j \in DOMAIN records : handleEditRecord(j)
  \/ \E j \in DOMAIN records : OpenDeleteModal(j)
  \/ CancelDelete
  \/ issued < MaxRequests /\ ConfirmDelete
  \/ \E i \in DOMAIN requests : DeleteOk(i)
  \/ \E i \in DOMAIN requests : DeleteFail(i)
  \/ FetchRecordsOk
  \/ FetchRecordsFail

SpecStore == Init /\ [][NextStore]_vars

\* The date controls: every range button, the custom inputs typed into or
\* emptied, a location, Clear; the providers list their days in ascending
\* order. Nothing happens in a component that is no longer mounted.
NextDates ==
  \/ \E option \in DOMAIN DATE_RANGE_OPTIONS :
       Mounted /\ Len(fetches) < MaxFetches /\ handleRangeChange(option)
  \/ \E d \in DateInputDays : Mounted /\ Len(fetches) < MaxFetches /\ StartDateInput(d)
  \/ \E d \in DateInputDays : Mounted /\ Len(fetches) < MaxFetches /\ EndDateInput(d)
  \/ Mounted /\ Len(fetches) < MaxFetches /\ StartDateCleared
  \/ Mounted /\ Len(fetches) < MaxFetches /\ EndDateCleared
  \/ \E suggestion \in Locations :
       Mounted /\ Len(fetches) < MaxFetches /\ handleLocationSelect(suggestion)
  \/ Mounted /\ Clear
  \/ \E i \in DOMAIN fetches : Mounted /\ ArchiveResponse(i, "asc")
  \/ \E i \in DOMAIN fetches : Mounted /\ ForecastResponse(i, "asc")
  \/ \E i \in DOMAIN fetches : Mounted /\ FetchFail(i)

SpecDates == Init /\ [][NextDates]_vars

\* Exporting: the persistence service holds one record of an earlier session,
\* drawn with the values the export reads; the list loads and the record is
\* exported in either format.
ExportNames == {<<"Paris">>, <<"Paris", Comma, " France">>, <<Quote, "Le Port", Quote>>}
ExportValues == {-125, 0, 2345}
ExportOptionals == {<<>>, <<0>>, <<4567>>}
\* `High: ${max}C, Low: ${min}C`
ExportDescription == <<"High: 25C", Comma, " Low: 12C">>

ExportObservations ==
  {[date |-> Midnight(TodayNum - 1), temperature |-> temperature,
    description |-> ExportDescription, humidity |-> humidity, windSpeed |-> windSpeed] :
     temperature \in ExportValues, humidity \in ExportOptionals,
     windSpeed \in ExportOptionals}

PlainObservation ==
  [date |-> Midnight(TodayNum - 2), temperature |-> 1000,
   description |-> ExportDescription, humidity |-> <<5000>>, windSpeed |-> <<300>>]

ExportRecords ==
  {[id |-> 1, location |-> [name |-> name, lat |-> 48, lon |-> 2],
    dateRange |-> [startDate |-> Midnight(TodayNum - 2), endDate |-> Midnight(TodayNum - 1)],
    temperatures |-> <<PlainObservation, temp>>,
    createdAt |-> Midnight(TodayNum - 1)] :
     name \in ExportNames, temp \in ExportObservations}

InitExport == \E record \in ExportRecords : InitWith(<<record>>)

NextExport ==
  \/ FetchRecordsOk
  \/ FetchRecordsFail
  \/ \E j \in DOMAIN records : exportRecord(j, "json")
  \/ \E j \in DOMAIN records : exportRecord(j, "csv")

SpecExport == InitExport /\ [][NextExport]_vars

\* Escaping: the same, the stored record holding an observation whose
\* description is any text: empty, plain, with a comma, with quotes, with a
\* newline.
EscapeTexts ==
  {<<>>, <<"clear sky">>, ExportDescription,
   <<"He said ", Quote, "hi", Quote, Comma, " then left">>,
   <<"morning", Newline, "evening">>, <<Quote>>}

EscapeRecords ==
  {[id |-> 1, location |-> [name |-> name, lat |-> 48, lon |-> 2],
    dateRange |-> [startDate |-> Midnight(TodayNum - 2), endDate |-> Midnight(TodayNum - 1)],
    temperatures |-> <<PlainObservation,
                       [date |-> Midnight(TodayNum - 1), temperature |-> temperature,
                        description |-> description, humidity |-> humidity,
                        windSpeed |-> <<>>]>>,
    createdAt |-> Midnight(TodayNum - 1)] :
     name \in ExportNames, description \in EscapeTexts,
     temperature \in ExportValues, humidity \in ExportOptionals}

InitEscape == \E record \in EscapeRecords : InitWith(<<record>>)

SpecEscape == InitEscape /\ [][NextExport]_vars

\* The home page: locations are submitted, also while an earlier submit is
\* in flight; each of the three requests of a call is answered or fails.
NextHome ==
  \/ submitCount < MaxSubmits /\ handleWeatherSubmit
  \/ \E i \in DOMAIN submits, k \in Endpoints : RequestFulfilled(i, k)
  \/ \E i \in DOMAIN submits, k \in Endpoints : RequestRejected(i, k)
  \/ handleError("No locations found. Please try a different search term.")

SpecHome == Init /\ [][NextHome]_vars

\* The carousel over a list of one to MaxVideos videos that does not change.
VideoLists == {[k \in 1..length |-> k] : length \in 1..MaxVideos}

InitCarousel ==
  \E list \in VideoLists :
    CardInit(<<SeedRecord>>) /\ HomeInit /\ CarouselInit(list)

NextCarousel ==
  \/ nextVideo
  \/ previousVideo
  \/ \E index \in 0..(MaxVideos - 1) : SelectVideo(index)

SpecCarousel == InitCarousel /\ [][NextCarousel]_vars

\* ------------------------------------------------------------------ claims
Days(req) == req.start_date..req.end_date

DaysAsked(reqs, provider) ==
  UNION {Days(reqs[k]) : k \in {j \in DOMAIN reqs : reqs[j].provider = provider}}

RangeDays(startDate, endDate) == dateFormat(startDate)..dateFormat(endDate)

Ascending(seq) ==
  \A k \in 1..(Len(seq) - 1) : isBefore(seq[k].date, seq[k + 1].date)

IsValidated(startDate, endDate) == Validate(startDate, endDate) = "ok"

\* C1: a response to a request that the user has since superseded is ignored:
\* once nothing is in flight, the form shows the series of its current
\* {location, dateRange}, not the one a superseded response brought.
StaleResponseIgnored ==
  (fetches = <<>> /\ completed.outcome = "stored" /\ completed.stale)
    => formData.temperatures =
         SeriesFor(formData.location, formData.dateRange.startDate,
                   formData.dateRange.endDate)

\* C2: for a validated range, the days asked of the archive provider and the
\* days asked of the forecast provider are disjoint and together are exactly
\* the days of the range.
SplitCoversRange ==
  (completed.outcome = "stored" /\ IsValidated(completed.startDate, completed.endDate))
    => LET a == DaysAsked(completed.requests, "archive")
           f == DaysAsked(completed.requests, "forecast")
       IN /\ a \cap f = {}
          /\ a \cup f = RangeDays(completed.startDate, completed.endDate)

\* C3: the archive provider is asked only when the range starts on or before
\* the cutoff, and never for a start_date after its end_date.
ArchiveAskedOnlyForDays ==
  \A i \in DOMAIN fetches :
    IsValidated(fetches[i].startDate, fetches[i].endDate) =>
      \A k \in DOMAIN fetches[i].requests :
        fetches[i].requests[k].provider = "archive" =>
          /\ ~isAfter(fetches[i].startDate, cutoffDate)
          /\ fetches[i].requests[k].start_date <= fetches[i].requests[k].end_date

\* C4: a successful aggregation over a validated range stores as many
\* observations as the range has calendar days.
CountMatchesRange ==
  (completed.outcome = "stored" /\ IsValidated(completed.startDate, completed.endDate))
    => Len(formData.temperatures)
         = Cardinality(RangeDays(completed.startDate, completed.endDate))

\* C5: the series a fetch writes to the form is strictly ascending by date,
\* whatever order the providers listed their days in.
StoredSeriesAscending ==
  completed.outcome = "stored" => Ascending(formData.temperatures)

\* a fetch has just stored a series whose providers did not answer in order
StoredFromUnorderedAnswers ==
  /\ completed.outcome = "stored"
  /\ Len(completed.raw) >= 2
  /\ ~Ascending(completed.raw)
  /\ Len(formData.temperatures) = Len(completed.raw)

\* C6: every save request carries the observations fetched for the location
\* and date range it carries.
SavedSeriesMatchesRecord ==
  \A i \in DOMAIN requests :
    requests[i].op \in {"put", "post"} =>
      requests[i].body.temperatures =
        SeriesFor(requests[i].body.location, requests[i].body.dateRange.startDate,
                  requests[i].body.dateRange.endDate)

\* C7: a fetch that fails leaves the form as it was, temperatures included,
\* and raises the error toast.
FailedFetchKeepsForm ==
  [][completed'.outcome = "failed" =>
       /\ formData' = formData
       /\ toast' = "Failed to fetch weather data"]_vars

\* the forecast request has just failed after the archive provider answered,
\* in a form that showed a series already
ForecastFailedAfterArchiveAnswered ==
  /\ completed.outcome = "failed"
  /\ Len(completed.requests) = 2
  /\ completed.raw # <<>>
  /\ formData.hasTemps
  /\ formData.temperatures # completed.raw

HasRequestTo(reqs, provider) == \E k \in DOMAIN reqs : reqs[k].provider = provider

\* C8 as stated: while the archive request of a range that needs both
\* providers is unresolved, the forecast request is already on its way.
ForecastIssuedWithArchive ==
  \A i \in DOMAIN fetches :
    (fetches[i].pc = "archive" /\ NeedsRecentData(fetches[i].endDate))
      => HasRequestTo(fetches[i].requests, "forecast")

\* C8 as amended: the forecast request is sent only once the archive request
\* has resolved, and a series is stored only after every request of the
\* aggregation was answered: the archive one, and the forecast one when the
\* range ends after the cutoff.
ForecastIssuedAfterArchive ==
  /\ \A i \in DOMAIN fetches :
       HasRequestTo(fetches[i].requests, "forecast") => fetches[i].pc = "forecast"
  /\ completed.outcome = "stored" =>
       /\ HasRequestTo(completed.requests, "archive")
       /\ NeedsRecentData(completed.endDate) => HasRequestTo(completed.requests, "forecast")
       /\ Len(completed.raw)
            = Cardinality(DaysAsked(completed.requests, "archive"))
              + Cardinality(DaysAsked(completed.requests, "forecast"))

\* the archive provider has answered and the forecast request is in flight
AwaitingForecast ==
  \E i \in DOMAIN fetches :
    /\ fetches[i].pc = "forecast"
    /\ fetches[i].temperatures # <<>>
    /\ HasRequestTo(fetches[i].requests, "forecast")

Ids(seq) == {seq[j].id : j \in DOMAIN seq}

\* C9: once the list has loaded and every save and delete has completed, the
\* cache holds exactly the ids the persistence service holds, each once.
CacheMirrorsServer ==
  (listPending = "done" /\ requests = <<>>)
    => /\ Ids(records) = Ids(server)
       /\ Cardinality(Ids(records)) = Len(records)

\* the ids the persistence service handed out and has since deleted
DeletedIds == {id \in 1..(nextId - 1) : ~HasId(server, id)}

\* C10: an id whose deletion succeeded is in the cache in no later state.
DeletedStaysAbsent == \A id \in DeletedIds : ~HasId(records, id)

\* C11: the step in which a create, update or delete request fails leaves the
\* records cache as it was, and leaves the draft form and the record loaded
\* for editing as they were.
FailedRequestKeepsCache ==
  [][toast' \in {"Failed to save weather record", "Failed to delete weather record"}
       => /\ records' = records
          /\ formData' = formData
          /\ selectedRecord' = selectedRecord
          /\ server' = server]_vars

\* a save has just failed while the cache holds records and the form a draft
\* with its series
SaveFailedWithDraft ==
  /\ toast = "Failed to save weather record"
  /\ records # <<>>
  /\ formData.location # 0
  /\ formData.temperatures # <<>>

\* C12: saveRecord on a form without a location name, or without
\* observations, sends nothing and changes nothing: no save request in flight
\* carries such a form, and the step that rejects leaves the requests, the
\* cache, the service and the form as they were.
IncompleteSaveRejected ==
  /\ [](\A i \in DOMAIN requests :
          requests[i].op \in {"put", "post"} =>
            /\ requests[i].body.location # 0
            /\ requests[i].body.hasTemps
            /\ requests[i].body.temperatures # <<>>)
  /\ [][toast' = "Please select a valid location and ensure weather data is loaded"
          => /\ requests' = requests
             /\ issued' = issued
             /\ records' = records
             /\ server' = server
             /\ formData' = formData]_vars

\* Save has just been refused on a form with a location and no observations
SaveRefusedWithoutSeries ==
  /\ toast = "Please select a valid location and ensure weather data is loaded"
  /\ formData.location # 0
  /\ ~formData.hasTemps
  /\ requests = <<>>

\* the instant of a valid Date, in half days
Instant(date) == 2 * date.day + date.tod

Rejections ==
  {"Cannot select future dates", "Date range cannot exceed 30 days",
   "End date must be after start date"}

\* a step of handleDateChange: a range button with days, or a custom input
DateChangeStep ==
  \/ \E option \in DOMAIN DATE_RANGE_OPTIONS :
       DATE_RANGE_OPTIONS[option] > 0 /\ handleRangeChange(option)
  \/ \E d \in DateInputDays : StartDateInput(d) \/ EndDateInput(d)
  \/ StartDateCleared
  \/ EndDateCleared

\* start <= end, end <= today, and at most 30 full days from start to end
WithinRules(dateRange) ==
  /\ IsValidDate(dateRange.startDate) /\ IsValidDate(dateRange.endDate)
  /\ Instant(dateRange.startDate) <= Instant(dateRange.endDate)
  /\ Instant(dateRange.endDate) <= Instant(today)
  /\ Instant(dateRange.endDate) - Instant(dateRange.startDate) < 2 * (MaxRangeDays + 1)

\* C13: the range a step of handleDateChange accepts, which it writes to
\* formData.dateRange and calls fetchHistoricalWeather with, has
\* start <= end, end <= today and (end - start) <= 30 days.
AcceptedRangeWithinRules ==
  [][(DateChangeStep /\ toast' \notin Rejections)
       => WithinRules(formData'.dateRange)]_vars

\* C14: in every reachable state the range of the draft form has
\* start <= end and end <= today.
FormRangeWithinInvariants ==
  /\ IsValidDate(formData.dateRange.startDate) /\ IsValidDate(formData.dateRange.endDate)
  /\ Instant(formData.dateRange.startDate) <= Instant(formData.dateRange.endDate)
  /\ Instant(formData.dateRange.endDate) <= Instant(today)

\* the verdict the rules give in their order: future date, then range too
\* long, then inverted range
RuleVerdict(startDate, endDate) ==
  IF Instant(startDate) > Instant(today) \/ Instant(endDate) > Instant(today)
  THEN "Cannot select future dates"
  ELSE IF Instant(endDate) - Instant(startDate) >= 2 * (MaxRangeDays + 1)
  THEN "Date range cannot exceed 30 days"
  ELSE IF Instant(endDate) < Instant(startDate)
  THEN "End date must be after start date"
  ELSE "ok"

\* this step reports what the rules say of the candidate pair
Reports(startDate, endDate) ==
  IF RuleVerdict(startDate, endDate) = "ok"
  THEN toast' \notin Rejections
  ELSE toast' = RuleVerdict(startDate, endDate)

RejectedChangeHasNoEffect ==
  [][(DateChangeStep /\ toast' \in Rejections)
       => /\ formData' = formData
          /\ fetches' = fetches
          /\ isLoadingWeather' = isLoadingWeather]_vars

\* a range too long has just been refused in a form that shows a series
TooLongRefusedWithSeries ==
  /\ toast = "Date range cannot exceed 30 days"
  /\ formData.temperatures # <<>>
  /\ fetches = <<>>

\* the split of one call for a range with a valid end date: the forecast
\* request, once the archive answer is in, is there exactly when the range
\* ends after the cutoff, and asks for [cutoff+1, end]; the archive request
\* ends at min(end, cutoff)
SplitAsSpecified(reqs, endDate, archiveAnswered) ==
  LET cutoff == TodayNum - CutoffDays
      end == endDate.day
  IN /\ archiveAnswered => (HasRequestTo(reqs, "forecast") <=> end > cutoff)
     /\ \A k \in DOMAIN reqs :
          /\ reqs[k].provider = "forecast" =>
               /\ end > cutoff
               /\ reqs[k].start_date = cutoff + 1
               /\ reqs[k].end_date = end
          /\ reqs[k].provider = "archive" =>
               reqs[k].end_date = (IF end < cutoff THEN end ELSE cutoff)

\* C17: the forecast provider is asked if and only if the range ends after the
\* cutoff, for [cutoff+1, range.end], and the archive request ends at
\* min(range.end, cutoff).
ForecastAskedAfterCutoffOnly ==
  /\ \A i \in DOMAIN fetches :
       IsValidDate(fetches[i].endDate) =>
         SplitAsSpecified(fetches[i].requests, fetches[i].endDate,
                          fetches[i].pc = "forecast")
  /\ (completed.outcome = "stored" /\ IsValidDate(completed.endDate))
       => SplitAsSpecified(completed.requests, completed.endDate, TRUE)

\* a series was stored from the archive alone, for a range ending on the cutoff
StoredFromArchiveAlone ==
  /\ completed.outcome = "stored"
  /\ completed.endDate = cutoffDate
  /\ ~HasRequestTo(completed.requests, "forecast")
  /\ completed.raw # <<>>

\* C18: an accepted saveRecord sends one request, an update addressed to the
\* id of the record loaded for editing if there is one and a create
\* otherwise; a successful update replaces the cached record of that id in
\* place, every other cached record, the order and the length of the cache
\* staying as they were, and the form returns to a draft without id.
UpdateReplacesInPlace ==
  [][/\ (issued' = issued + 1 /\ requests'[Len(requests')].op # "delete")
          => LET r == requests'[Len(requests')]
             IN /\ requests' = Append(requests, r)
                /\ r.op = "put" <=> selectedRecord # 0
                /\ r.op = "put" => (r.id = selectedRecord /\ formData.id = r.id)
                /\ r.op = "post" => formData.id = 0
     /\ \A i \in DOMAIN requests :
          (/\ requests[i].op = "put"
           /\ requests' = RemoveAt(requests, i)
           /\ toast' = "Weather record updated successfully")
            => /\ Len(records') = Len(records)
               /\ \A j \in DOMAIN records :
                    IF records[j].id = requests[i].id
                    THEN records'[j] = Stored(requests[i].id, requests[i].body)
                    ELSE records'[j] = records[j]
               /\ formData'.id = 0
               /\ selectedRecord' = 0]_vars

Within(a, b, tolerance) == a - b <= tolerance /\ b - a <= tolerance

\* an optional value read back from the document: absent stays absent (null),
\* a present value, 0 included, is a number within 0.1 of it
OptionalReadBack(original, exported) ==
  IF original = <<>> THEN exported = <<>>
  ELSE exported # <<>> /\ Within(exported[1], original[1], 10)

\* C19: the JSON document of a stored record gives back its location, the
\* days of its date range, and for every observation the temperature, the
\* humidity and the wind speed within 0.1; humidity and wind speed are null
\* only when the record has none.
JsonExportReadsBack ==
  download.format = "json" =>
    LET record == download.of
        document == download.document
    IN /\ document.location = record.location
       /\ document.dateRange.startDate = record.dateRange.startDate.day
       /\ document.dateRange.endDate = record.dateRange.endDate.day
       /\ Len(document.temperatures) = Len(record.temperatures)
       /\ \A k \in DOMAIN record.temperatures :
            /\ Within(document.temperatures[k].temperature,
                      record.temperatures[k].temperature, 10)
            /\ OptionalReadBack(record.temperatures[k].humidity,
                                document.temperatures[k].humidity)
            /\ OptionalReadBack(record.temperatures[k].windSpeed,
                                document.temperatures[k].windSpeed)

\* the metadata lines with the escaping rule applied to each value
EscapedMetadata(record) ==
  <<<<"# Location: ">> \o escapeCSV(record.location.name),
    <<"# Latitude: ">> \o escapeCSV(PlainText(record.location.lat)),
    <<"# Longitude: ">> \o escapeCSV(PlainText(record.location.lon)),
    <<"# Date Range: ">> \o escapeCSV(PlainText(record.dateRange.startDate.day))
      \o <<" to ">> \o escapeCSV(PlainText(record.dateRange.endDate.day)),
    <<>> >>

\* C20: the CSV export applies the escaping rule to every field, the values
\* of the metadata lines as well as the five fields of each row.
CsvEscapesEveryField ==
  download.format = "csv" =>
    LET record == download.of
        rows == [k \in DOMAIN record.temperatures |-> CsvRow(record.temperatures[k])]
    IN download.document
         = Join(EscapedMetadata(record) \o <<CsvHeader>> \o rows, Newline)

\* the texts convertToCSV passes to escapeCSV for one observation
RowFields(temp) ==
  <<PlainText(temp.date.day), FixedText(toFixed1(temp.temperature)),
    temp.description, OptionalFixedText(temp.humidity),
    OptionalFixedText(temp.windSpeed)>>

CountOf(text, piece) == Cardinality({k \in DOMAIN text : text[k] = piece})

\* undoing the quoting: the wrapping quotes are taken off and every pair of
\* quotes inside becomes one
RECURSIVE Undouble(_)
Undouble(text) ==
  IF text = <<>> THEN <<>>
  ELSE IF Len(text) >= 2 /\ text[1] = Quote /\ text[2] = Quote
       THEN <<Quote>> \o Undouble(SubSeq(text, 3, Len(text)))
       ELSE <<Head(text)>> \o Undouble(Tail(text))

Unquote(text) ==
  IF Len(text) >= 2 /\ text[1] = Quote /\ text[Len(text)] = Quote
  THEN Undouble(SubSeq(text, 2, Len(text) - 1))
  ELSE text

\* the result the rule asks for a field text
EscapedAsStated(field, result) ==
  IF \E k \in DOMAIN field : field[k] \in {Comma, Quote, Newline}
  THEN /\ Len(result) = Len(field) + CountOf(field, Quote) + 2
       /\ result[1] = Quote /\ result[Len(result)] = Quote
       /\ CountOf(result, Quote) = 2 * CountOf(field, Quote) + 2
       /\ Unquote(result) = field
  ELSE result = field

Occurs(part, text) ==
  \E k \in 0..(Len(text) - Len(part)) : SubSeq(text, k + 1, k + Len(part)) = part

\* C21: every field text of an exported row is written as the rule says: in
\* double quotes with its quotes doubled if it holds a comma, a quote or a
\* newline, unchanged otherwise; and undoing the quoting gives the text back.
FieldsEscapedAsStated ==
  download.format = "csv" =>
    \A k \in DOMAIN download.of.temperatures :
      \A f \in DOMAIN RowFields(download.of.temperatures[k]) :
        LET field == RowFields(download.of.temperatures[k])[f]
            result == escapeCSV(field)
        IN /\ EscapedAsStated(field, result)
           /\ Unquote(result) = field
           /\ Occurs(result, download.document)

\* a row was exported whose description holds quotes and a comma
QuotedDescriptionExported ==
  /\ download.format = "csv"
  /\ \E k \in DOMAIN download.of.temperatures :
       LET field == download.of.temperatures[k].description
       IN /\ CountOf(field, Quote) = 2 /\ CountOf(field, Comma) = 1
          /\ Occurs(<<Quote>> \o DoubleQuotes(field) \o <<Quote>>, download.document)

\* the lines of a text
RECURSIVE SplitLines(_, _)
SplitLines(text, line) ==
  IF text = <<>> THEN <<line>>
  ELSE IF Head(text) = Newline THEN <<line>> \o SplitLines(Tail(text), <<>>)
  ELSE SplitLines(Tail(text), Append(line, Head(text)))

\* the fields of a row: a comma separates two fields unless it stands between
\* the quotes of a quoted field
RECURSIVE SplitFields(_, _, _)
SplitFields(text, field, quoted) ==
  IF text = <<>> THEN <<field>>
  ELSE IF Head(text) = Comma /\ ~quoted
       THEN <<field>> \o SplitFields(Tail(text), <<>>, FALSE)
       ELSE SplitFields(Tail(text), Append(field, Head(text)),
                        IF Head(text) = Quote THEN ~quoted ELSE quoted)

IsComment(line) ==
  line # <<>> /\ line[1] \in {"# Location: ", "# Latitude: ", "# Longitude: ",
                              "# Date Range: "}

\* C22: the CSV export of a record with n observations is four metadata
\* comment lines, a blank line, the header line, and n rows in the order of
\* the observations, each of five fields, a missing humidity or wind speed
\* being an empty field.
CsvLayout ==
  download.format = "csv" =>
    LET temps == download.of.temperatures
        lines == SplitLines(download.document, <<>>)
    IN /\ Len(lines) = 6 + Len(temps)
       /\ \A k \in 1..4 : IsComment(lines[k])
       /\ lines[5] = <<>>
       /\ lines[6] = CsvHeader /\ Len(SplitFields(lines[6], <<>>, FALSE)) = 5
       /\ \A k \in DOMAIN temps :
            LET fields == SplitFields(lines[6 + k], <<>>, FALSE)
            IN /\ Len(fields) = 5
               /\ fields[1] = PlainText(temps[k].date.day)
               /\ Unquote(fields[3]) = temps[k].description
               /\ temps[k].humidity = <<>> <=> fields[4] = <<>>
               /\ temps[k].windSpeed = <<>> <=> fields[5] = <<>>

\* two rows were exported, the second without humidity and with a wind speed
RowWithoutHumidityExported ==
  /\ download.format = "csv"
  /\ Len(download.of.temperatures) = 2
  /\ download.of.temperatures[2].humidity = <<>>
  /\ download.of.temperatures[2].windSpeed # <<>>
  /\ Len(SplitLines(download.document, <<>>)) = 8

CountTo(reqs, provider) ==
  Cardinality({k \in DOMAIN reqs : reqs[k].provider = provider})

\* C23: nothing is sent twice. A call of fetchHistoricalWeather sends at most
\* one request to each provider; a step sends at most one save or delete
\* request and starts at most one call; the list is asked for once; and the
\* step in which a request fails sends nothing: the failed request is gone,
\* and the calls and requests that remain are the ones there were.
NoAutomaticRetry ==
  /\ [](\A i \in DOMAIN fetches :
          /\ CountTo(fetches[i].requests, "archive") <= 1
          /\ CountTo(fetches[i].requests, "forecast") <= 1)
  /\ [][/\ issued' \in {issued, issued + 1}
        /\ Len(requests') <= Len(requests) + (issued' - issued)
        /\ Len(fetches') <= Len(fetches) + 1
        /\ listPending # "await" => listPending' = listPending
        /\ toast' \in {"Failed to save weather record", "Failed to delete weather record"}
             => /\ issued' = issued
                /\ \E i \in DOMAIN requests : requests' = RemoveAt(requests, i)
                /\ fetches' = fetches
        /\ toast' = "Failed to fetch weather data"
             => /\ issued' = issued /\ requests' = requests
                /\ \E i \in DOMAIN fetches : fetches' = RemoveAt(fetches, i)
        /\ toast' = "Failed to fetch weather records"
             => /\ issued' = issued /\ requests' = requests /\ fetches' = fetches
                /\ listPending' = "failed"]_vars

\* a delete has just failed and nothing is in flight
DeleteFailedNothingInFlight ==
  /\ toast = "Failed to delete weather record"
  /\ requests = <<>>
  /\ fetches = <<>>
  /\ issued = 1
  /\ HasId(server, recordToDelete)

\* C24: isLoadingWeather is true whenever a fetchHistoricalWeather call is in
\* flight, also when several overlap, and false when none is.
LoadingWhileInFlight == isLoadingWeather <=> fetches # <<>>

\* C25: while the form has no location, a date change starts no provider
\* request.
NoFetchWithoutLocation ==
  [][(DateChangeStep /\ formData.location = 0) => Len(fetches') = Len(fetches)]_vars

\* C26: whenever a record is loaded for editing it is a record of the cache,
\* so that no update is addressed to a record whose deletion succeeded.
SelectedRecordIsCached ==
  selectedRecord # 0 => HasId(records, selectedRecord)

Shown == <<weatherData, forecastData, airPollutionData, mapCenter>>

\* C27: handleWeatherSubmit is all or nothing. The four values shown are
\* always those of one call; they change only in the step in which the last
\* of the three requests of a call is answered, all three having succeeded,
\* and then all four become that call's; the step in which a request fails
\* leaves the four as they were and sets the error message; isLoading is false
\* after either; and the step that starts a call clears the error.
SubmitAllOrNothing ==
  /\ [](\A a, b \in DOMAIN Shown : Shown[a] = Shown[b])
  /\ [][/\ finished'.outcome = "success"
             => /\ \A k \in Endpoints : finished'.responses[k] = "ok"
                /\ \A a \in DOMAIN Shown : Shown'[a] = finished'.call
                /\ ~isLoading'
        /\ finished'.outcome = "failure"
             => /\ Shown' = Shown
                /\ error' = "Failed to fetch weather data. Please try again."
                /\ ~isLoading'
        /\ finished'.outcome # "success" => Shown' = Shown
        /\ submitCount' # submitCount => (error' = "null" /\ isLoading')]_vars

\* a call has just failed on its last request, after two of its requests
\* were answered, while the page shows the answers of an earlier call
SubmitFailedOnLastRequest ==
  /\ finished.outcome = "failure"
  /\ Cardinality({k \in Endpoints : finished.responses[k] = "ok"}) = 2
  /\ weatherData # 0
  /\ weatherData # finished.call
  /\ mapCenter = weatherData

\* C28: over a non-empty list, after any presses of next, previous and the
\* dots, 0 <= currentIndex < videos.length; next goes one up and from the last
\* video to the first, previous one down and from the first to the last; and
\* next then previous, or previous then next, returns to the index it began at.
CarouselIndexInRange ==
  videos # <<>> =>
    /\ currentIndex \in 0..(Len(videos) - 1)
    /\ trail # <<>> =>
         LET last == trail[Len(trail)]
         IN /\ last.op = "next" =>
                 currentIndex = (IF last.from = Len(videos) - 1 THEN 0 ELSE last.from + 1)
            /\ last.op = "previous" =>
                 currentIndex = (IF last.from = 0 THEN Len(videos) - 1 ELSE last.from - 1)
    /\ (Len(trail) = 2 /\ {trail[1].op, trail[2].op} = {"next", "previous"})
         => currentIndex = trail[1].from

\* previous was pressed on the first video and next after it, in a list of
\* three or more
WrappedBackAndForth ==
  /\ Len(videos) >= 3
  /\ Len(trail) = 2
  /\ trail[1].op = "previous" /\ trail[1].from = 0
  /\ trail[2].op = "next" /\ trail[2].from = Len(videos) - 1
  /\ currentIndex = 0

====
